---- MODULE Spec2Model ----
(***************************************************************************)
(* A model of MCPClient (src/mcp_client_demo.py): an asyncio client that   *)
(* sends length-prefixed JSON requests, correlates replies through         *)
(* _response_futures, and runs a reader task and a heartbeat task per      *)
(* connection.  One action is one run of a coroutine between two awaits    *)
(* (asyncio runs a task without interruption until it awaits).             *)
(***************************************************************************)
EXTENDS Integers, Sequences, FiniteSets, TLC

\* ---------------------------------------------------------------- bounds
\* send_request invocations (user calls and heartbeat calls together)
MaxCalls == 2
\* transports that open_connection may hand out
MaxConn == 1
\* close() invocations
MaxClose == 2
\* code points in a string a message of the codec runs carries
MaxText == 2

\* the same three budgets for the runs that look at overlapping connects, which
\* need a second transport
OverlapCalls == 1
OverlapConn == 2
OverlapClose == 1

\* the calls and the transports of the larger of the two budgets
Calls == 1..MaxCalls
Conns == 1..OverlapConn

\* ------------------------------------------------------------ JSON values
\* A JSON value found under "reply_to": absent/null, an integer or a string.
JNull == [kind |-> "null", i |-> 0, s |-> ""]
JInt(n) == [kind |-> "int", i |-> n, s |-> ""]
JStr(t) == [kind |-> "str", i |-> 0, s |-> t]

Digits == <<"0", "1", "2", "3", "4", "5", "6", "7", "8", "9">>

\* Python's str() of a non-negative int
RECURSIVE IntStr(_)
IntStr(n) == IF n < 10 THEN Digits[n + 1]
             ELSE IntStr(n \div 10) \o Digits[(n % 10) + 1]

\* Python's str() of a JSON value: str(7) = "7", str("7") = "7", str(None) = "None"
PyStr(v) == IF v.kind = "int" THEN IntStr(v.i)
            ELSE IF v.kind = "str" THEN v.s
            ELSE "None"

\* the dictionary keys send_request can create: str(msg_id)
Keys == {IntStr(n) : n \in Calls}

\* what the peer may put under "reply_to"
ReplyVals == {JNull} \cup {JInt(n) : n \in Calls} \cup {JStr(IntStr(n)) : n \in Calls}

\* a decoded message; only the field the client looks at is kept
Msg(v) == [reply_to |-> v]
NoMsg == [reply_to |-> [kind |-> "none", i |-> 0, s |-> ""]]

\* ------------------------------------------------------------------ frames
\* What one _read_message call finds on the stream.
\*   eof      the stream ended before the 4 prefix bytes
\*   short    the stream ended inside the body
\*   zero     a prefix of length 0
\*   badjson  a body that is not JSON
\*   badutf8  a body that is not UTF-8
\*   nondict  a body that is JSON but no object
\*   msg      a JSON object
Frame(k, v) == [kind |-> k, reply_to |-> v]
LiveFrames == {Frame(k, JNull) : k \in {"zero", "badjson", "badutf8", "nondict"}}
              \cup {Frame("msg", v) : v \in ReplyVals}
EndFrames == {Frame(k, JNull) : k \in {"eof", "short"}}

\* _read_exact / _read_message: None, a raised exception, or the parsed value
ReadMessage(fr) ==
    CASE fr.kind \in {"eof", "short"} -> [tag |-> "None", msg |-> NoMsg]
      [] fr.kind = "zero"             -> [tag |-> "None", msg |-> NoMsg]
      [] fr.kind = "badjson"          -> [tag |-> "None", msg |-> NoMsg]
      [] fr.kind = "badutf8"          -> [tag |-> "raise", msg |-> NoMsg]
      [] fr.kind = "nondict"          -> [tag |-> "value", msg |-> NoMsg]
      [] OTHER                        -> [tag |-> "value", msg |-> Msg(fr.reply_to)]

\* ----------------------------------------------------------------- futures
FNone == [st |-> "none", msg |-> NoMsg, err |-> ""]
FPending == [st |-> "pending", msg |-> NoMsg, err |-> ""]
FResult(m) == [st |-> "result", msg |-> m, err |-> ""]
FException(e) == [st |-> "exception", msg |-> NoMsg, err |-> e]
FCancelled == [st |-> "cancelled", msg |-> NoMsg, err |-> ""]

\* ------------------------------------------------------------------- codec
\* Text is a sequence of code points, data a sequence of bytes (0..255).
\* The JSON values of a message: null, an integer, a string, or an object, which
\* is the sequence of its <<key, value>> pairs in insertion order.
CNull == [t |-> "null", n |-> 0, s |-> <<>>, o |-> <<>>]
CInt(n) == [t |-> "int", n |-> n, s |-> <<>>, o |-> <<>>]
CStr(s) == [t |-> "str", n |-> 0, s |-> s, o |-> <<>>]
CObj(o) == [t |-> "obj", n |-> 0, s |-> <<>>, o |-> o]

\* the code points the codec treats specially, and the ones strings are made of
Ord == [quote |-> 34, backslash |-> 92, newline |-> 10, minus |-> 45, zero |-> 48,
        nine |-> 57, colon |-> 58, comma |-> 44, lbrace |-> 123, rbrace |-> 125,
        slash |-> 47, n |-> 110, a |-> 97, eacute |-> 233, euro |-> 8364,
        surrogate |-> 55296, lastSurrogate |-> 57343]

\* str(n) of a non-negative int, as code points
RECURSIVE DigitsOf(_)
DigitsOf(n) == IF n < 10 THEN <<Ord.zero + n>>
               ELSE Append(DigitsOf(n \div 10), Ord.zero + (n % 10))

\* json's string escaping with ensure_ascii=False: the quote, the backslash and
\* the control characters are escaped, every other code point is copied
RECURSIVE Escape(_)
Escape(s) ==
    IF s = <<>> THEN <<>>
    ELSE LET c == Head(s) IN
         (IF c = Ord.quote THEN <<Ord.backslash, Ord.quote>>
          ELSE IF c = Ord.backslash THEN <<Ord.backslash, Ord.backslash>>
          ELSE IF c = Ord.newline THEN <<Ord.backslash, Ord.n>>
          ELSE <<c>>) \o Escape(Tail(s))

\* json.dumps(v, separators=(",", ":"), ensure_ascii=False)
RECURSIVE Dumps(_)
RECURSIVE DumpsMembers(_)
DumpsMembers(o) ==
    IF o = <<>> THEN <<>>
    ELSE <<Ord.quote>> \o Escape(Head(o)[1]) \o <<Ord.quote, Ord.colon>>
         \o Dumps(Head(o)[2])
         \o (IF Len(o) > 1 THEN <<Ord.comma>> ELSE <<>>)
         \o DumpsMembers(Tail(o))

Dumps(v) ==
    CASE v.t = "null" -> <<110, 117, 108, 108>>
      [] v.t = "int"  -> IF v.n < 0 THEN <<Ord.minus>> \o DigitsOf(0 - v.n) ELSE DigitsOf(v.n)
      [] v.t = "str"  -> <<Ord.quote>> \o Escape(v.s) \o <<Ord.quote>>
      [] OTHER        -> <<Ord.lbrace>> \o DumpsMembers(v.o) \o <<Ord.rbrace>>

\* str.encode("utf-8") raises UnicodeEncodeError on a surrogate code point
Encodable(text) == \A i \in DOMAIN text : ~(text[i] \in Ord.surrogate..Ord.lastSurrogate)

\* str.encode("utf-8") of encodable text
RECURSIVE Utf8(_)
Utf8(text) ==
    IF text = <<>> THEN <<>>
    ELSE LET c == Head(text) IN
         (IF c < 128 THEN <<c>>
          ELSE IF c < 2048 THEN <<192 + (c \div 64), 128 + (c % 64)>>
          ELSE IF c < 65536
          THEN <<224 + (c \div 4096), 128 + ((c \div 64) % 64), 128 + (c % 64)>>
          ELSE <<240 + (c \div 262144), 128 + ((c \div 4096) % 64),
                 128 + ((c \div 64) % 64), 128 + (c % 64)>>) \o Utf8(Tail(text))

\* struct.pack(">I", n); the lengths of the model are far below 2^32, where it raises
Pack(n) == <<(n \div 16777216) % 256, (n \div 65536) % 256, (n \div 256) % 256, n % 256>>

\* struct.unpack(">I", header)[0]
Unpack(h) == h[1] * 16777216 + h[2] * 65536 + h[3] * 256 + h[4]

NoWire == [tag |-> "none", bytes |-> <<>>]

\* _write_message up to writer.write: the bytes handed to the transport, or the
\* exception raised before anything is written
WriteMessage(m) ==
    LET text == Dumps(m) IN
    IF ~Encodable(text) THEN [tag |-> "raise", bytes |-> <<>>]
    ELSE LET data == Utf8(text) IN [tag |-> "bytes", bytes |-> Pack(Len(data)) \o data]

\* bytes.decode("utf-8"): the text, or ok = FALSE for UnicodeDecodeError
RECURSIVE Utf8Decode(_, _)
Utf8Decode(b, acc) ==
    LET cont(i) == i <= Len(b) /\ b[i] \in 128..191 IN
    IF b = <<>> THEN [ok |-> TRUE, text |-> acc]
    ELSE IF b[1] < 128 THEN Utf8Decode(Tail(b), Append(acc, b[1]))
    ELSE IF b[1] \in 194..223 /\ cont(2)
    THEN Utf8Decode(SubSeq(b, 3, Len(b)), Append(acc, (b[1] - 192) * 64 + (b[2] - 128)))
    ELSE IF b[1] \in 224..239 /\ cont(2) /\ cont(3)
    THEN LET c == (b[1] - 224) * 4096 + (b[2] - 128) * 64 + (b[3] - 128) IN
         IF c < 2048 \/ c \in Ord.surrogate..Ord.lastSurrogate
         THEN [ok |-> FALSE, text |-> <<>>]
         ELSE Utf8Decode(SubSeq(b, 4, Len(b)), Append(acc, c))
    ELSE IF b[1] \in 240..244 /\ cont(2) /\ cont(3) /\ cont(4)
    THEN LET c == (b[1] - 240) * 262144 + (b[2] - 128) * 4096 + (b[3] - 128) * 64
                  + (b[4] - 128) IN
         IF c < 65536 \/ c > 1114111
         THEN [ok |-> FALSE, text |-> <<>>]
         ELSE Utf8Decode(SubSeq(b, 5, Len(b)), Append(acc, c))
    ELSE [ok |-> FALSE, text |-> <<>>]

\* what a parsing step hands back: the value and the position after it
ParseFail == [ok |-> FALSE, val |-> CNull, i |-> 0]
Parsed(v, i) == [ok |-> TRUE, val |-> v, i |-> i]

IsDigit(t, i) == i <= Len(t) /\ t[i] \in Ord.zero..Ord.nine
At(t, i, c) == i <= Len(t) /\ t[i] = c

\* the digits of a JSON number from position i on
RECURSIVE ParseDigits(_, _, _)
ParseDigits(t, i, acc) ==
    IF IsDigit(t, i) THEN ParseDigits(t, i + 1, acc * 10 + (t[i] - Ord.zero))
    ELSE [n |-> acc, i |-> i]

\* a JSON number without fraction and exponent; a leading zero ends the number
ParseInt(t, i, sign) ==
    IF ~IsDigit(t, i) THEN ParseFail
    ELSE IF t[i] = Ord.zero THEN Parsed(CInt(0), i + 1)
    ELSE LET r == ParseDigits(t, i, 0) IN Parsed(CInt(sign * r.n), r.i)

\* the characters of a JSON string up to its closing quote, i being the position
\* after the opening quote; of the escapes, the ones Escape writes
RECURSIVE ParseChars(_, _, _)
ParseChars(t, i, acc) ==
    IF i > Len(t) THEN ParseFail
    ELSE IF t[i] = Ord.quote THEN Parsed(CStr(acc), i + 1)
    ELSE IF t[i] = Ord.backslash
    THEN IF At(t, i + 1, Ord.quote) \/ At(t, i + 1, Ord.backslash) \/ At(t, i + 1, Ord.slash)
         THEN ParseChars(t, i + 2, Append(acc, t[i + 1]))
         ELSE IF At(t, i + 1, Ord.n) THEN ParseChars(t, i + 2, Append(acc, Ord.newline))
         ELSE ParseFail
    ELSE IF t[i] < 32 THEN ParseFail
    ELSE ParseChars(t, i + 1, Append(acc, t[i]))

\* json's scanner: one value starting at position i
RECURSIVE ParseValue(_, _)
RECURSIVE ParseMembers(_, _, _)
ParseMembers(t, i, acc) ==
    IF ~At(t, i, Ord.quote) THEN ParseFail
    ELSE LET k == ParseChars(t, i + 1, <<>>) IN
         IF ~k.ok \/ ~At(t, k.i, Ord.colon) THEN ParseFail
         ELSE LET v == ParseValue(t, k.i + 1) IN
              IF ~v.ok THEN ParseFail
              ELSE LET o == Append(acc, <<k.val.s, v.val>>) IN
                   IF At(t, v.i, Ord.comma) THEN ParseMembers(t, v.i + 1, o)
                   ELSE IF At(t, v.i, Ord.rbrace) THEN Parsed(CObj(o), v.i + 1)
                   ELSE ParseFail

ParseValue(t, i) ==
    IF i > Len(t) THEN ParseFail
    ELSE IF t[i] = Ord.quote THEN ParseChars(t, i + 1, <<>>)
    ELSE IF t[i] = Ord.lbrace
    THEN IF At(t, i + 1, Ord.rbrace) THEN Parsed(CObj(<<>>), i + 2)
         ELSE ParseMembers(t, i + 1, <<>>)
    ELSE IF t[i] = Ord.minus THEN ParseInt(t, i + 1, 0 - 1)
    ELSE IF IsDigit(t, i) THEN ParseInt(t, i, 1)
    ELSE IF i + 3 <= Len(t) /\ SubSeq(t, i, i + 3) = <<110, 117, 108, 108>>
    THEN Parsed(CNull, i + 4)
    ELSE ParseFail

NoRead == [tag |-> "none", val |-> CNull]

\* json.loads(text): the value, or None for the JSONDecodeError that
\* _read_message catches (no value, or extra data after it)
Loads(text) ==
    LET r == ParseValue(text, 1) IN
    IF r.ok /\ r.i = Len(text) + 1 THEN [tag |-> "value", val |-> r.val]
    ELSE [tag |-> "None", val |-> CNull]

\* _read_exact on the bytes left in the stream: ok = FALSE for IncompleteReadError
ReadExact(stream, n) ==
    IF Len(stream) < n THEN [ok |-> FALSE, data |-> <<>>, rest |-> <<>>]
    ELSE [ok |-> TRUE, data |-> SubSeq(stream, 1, n), rest |-> SubSeq(stream, n + 1, Len(stream))]

\* _read_message on a stream that holds these bytes and then ends
DecodeFrame(stream) ==
    LET header == ReadExact(stream, 4) IN
    IF ~header.ok THEN [tag |-> "None", val |-> CNull]
    ELSE LET length == Unpack(header.data) IN
         IF length = 0 THEN [tag |-> "None", val |-> CNull]
         ELSE LET body == ReadExact(header.rest, length) IN
              IF ~body.ok THEN [tag |-> "None", val |-> CNull]
              ELSE LET text == Utf8Decode(body.data, <<>>) IN
                   IF ~text.ok THEN [tag |-> "raise", val |-> CNull]
                   ELSE Loads(text.text)

VARIABLES
    closed,             \* self._closed
    reader,             \* self._reader: a connection, 0 for None
    writer,             \* self._writer: a connection, 0 for None
    receive_task,       \* self._receive_task: a reader task, 0 for None
    heartbeat_task,     \* self._heartbeat_task: a heartbeat task, 0 for None
    response_futures,   \* self._response_futures: key -> call owning the future, 0 absent
    msg_id_counter,     \* self._msg_id_counter
    nconn,              \* transports opened so far
    cstate,             \* per transport: "none", "open", "eof" (peer closed), "lost"
    rt,                 \* per reader task: "none", "new", "running", "done"
    rcancel,            \* per reader task: cancel() requested, CancelledError not yet delivered
    rconn,              \* per reader task: the stream its readexactly waits on
    rexit,              \* per reader task: "none", "returned", or "raised" (an exception left it)
    ht,                 \* per heartbeat task: "none", "sleep", "sending", "done"
    hcancel,            \* per heartbeat task: cancel() requested, not yet delivered
    ncalls,             \* send_request invocations so far
    pc,                 \* per call: "none", "connecting", "writing", "waiting", "done"
    owner,              \* per call: 0 for a user task, k for heartbeat task k
    mid,                \* per call: the msg_id it allocated, 0 before
    fut,                \* per call: its future
    outcome,            \* per call: how it ended
    nconnect,           \* connect() calls of user tasks waiting in open_connection
    ncloses,            \* close() invocations so far
    closing,            \* close() calls waiting in wait_closed
    closeReturned,      \* close() calls that have returned
    issued,             \* history: msg_ids in allocation order
    sent,               \* history: msg_ids whose frame was written
    sink,               \* history: last message printed as a notification, and the
                        \*          value of msg_id_counter when it was printed
    nresolved,          \* history: per call, how often its future was completed
    idAtClose,          \* history: msg_id_counter when close() was first called, -1 before
    budget,             \* how many calls, transports and close() calls a run may make
    cphase,             \* codec: "idle", "message", "encoded", "decoded"
    cmsg,               \* codec: the message handed to _write_message
    wire,               \* codec: what _write_message produced
    decoded             \* codec: what _read_message made of it

vars == <<closed, reader, writer, receive_task, heartbeat_task, response_futures,
          msg_id_counter, nconn, cstate, rt, rcancel, rconn, rexit, ht, hcancel,
          ncalls, pc, owner, mid, fut, outcome, nconnect, ncloses, closing,
          closeReturned, issued, sent, sink, nresolved, idAtClose, budget,
          cphase, cmsg, wire, decoded>>

connVars == <<reader, writer, receive_task, heartbeat_task, nconn>>
readerVars == <<rt, rcancel, rconn, rexit>>
hbVars == <<ht, hcancel>>
callVars == <<ncalls, pc, owner, mid, outcome>>
closeVars == <<closed, ncloses, closing, closeReturned, idAtClose>>
codecVars == <<cphase, cmsg, wire, decoded>>
clientVars == <<closed, reader, writer, receive_task, heartbeat_task, response_futures,
                msg_id_counter, nconn, cstate, rt, rcancel, rconn, rexit, ht, hcancel,
                ncalls, pc, owner, mid, fut, outcome, nconnect, ncloses, closing,
                closeReturned, issued, sent, sink, nresolved, idAtClose, budget>>
\* what no step of the client changes
fixedVars == <<budget, codecVars>>

\* __init__, in a run with budget b
ClientInit(b) ==
    /\ closed = FALSE
    /\ reader = 0
    /\ writer = 0
    /\ receive_task = 0
    /\ heartbeat_task = 0
    /\ response_futures = [k \in Keys |-> 0]
    /\ msg_id_counter = 0
    /\ nconn = 0
    /\ cstate = [k \in Conns |-> "none"]
    /\ rt = [k \in Conns |-> "none"]
    /\ rcancel = [k \in Conns |-> FALSE]
    /\ rconn = [k \in Conns |-> 0]
    /\ rexit = [k \in Conns |-> "none"]
    /\ ht = [k \in Conns |-> "none"]
    /\ hcancel = [k \in Conns |-> FALSE]
    /\ ncalls = 0
    /\ pc = [c \in Calls |-> "none"]
    /\ owner = [c \in Calls |-> 0]
    /\ mid = [c \in Calls |-> 0]
    /\ fut = [c \in Calls |-> FNone]
    /\ outcome = [c \in Calls |-> "none"]
    /\ nconnect = 0
    /\ ncloses = 0
    /\ closing = 0
    /\ closeReturned = 0
    /\ issued = <<>>
    /\ sent = {}
    /\ sink = [msg |-> NoMsg, at |-> 0]
    /\ nresolved = [c \in Calls |-> 0]
    /\ idAtClose = -1
    /\ budget = b

\* the codec is not exercised
CodecIdle ==
    /\ cphase = "idle"
    /\ cmsg = CNull
    /\ wire = NoWire
    /\ decoded = NoRead

Init ==
    /\ ClientInit([calls |-> MaxCalls, conns |-> MaxConn, closes |-> MaxClose])
    /\ CodecIdle

\* the client in a run that may open a second transport
OverlapInit ==
    /\ ClientInit([calls |-> OverlapCalls, conns |-> OverlapConn, closes |-> OverlapClose])
    /\ CodecIdle

\* ----------------------------------------------------------------- helpers
\* StreamReader.at_eof(): the peer closed its side, or the transport is gone
at_eof(k) == cstate[k] \in {"eof", "lost"}

\* a lookup that takes the oldest entry, whatever the key
LookupOldest(key) ==
    IF \E c \in Calls : \E k \in Keys : response_futures[k] = c
    THEN CHOOSE c \in Calls : /\ \E k \in Keys : response_futures[k] = c
                              /\ \A d \in Calls : (\E k \in Keys : response_futures[k] = d) => c <= d
    ELSE 0

\* dict.get(key): the call whose future is stored under key, 0 for None
Lookup(key) == IF key \in Keys THEN response_futures[key] ELSE 0

InRegistry(c) == \E key \in Keys : response_futures[key] = c

\* a counter that is read but not advanced once it is positive
next_msg_id_stuck(counter) == IF counter = 0 THEN 1 ELSE counter

\* _next_msg_id: the counter after the increment, which is also the id returned
next_msg_id(counter) == counter + 1

\* send_request without its check of self._closed
ClosedCheckMissing == FALSE

\* "if self._closed" at the head of send_request
ClosedCheck == closed

\* the test without "not fut.done()"
CanResolveDone(c) == c # 0

\* "fut and not fut.done()" in _handle_message
CanResolve(c) == c # 0 /\ fut[c].st = "pending"

\* the loop without "if not fut.done()"
FailTargetsDone(f) == {c \in Calls : InRegistry(c)}

\* the futures the loops "for fut in values(): if not fut.done()" complete, f being
\* the futures at the time the loop runs
FailTargets(f) == {c \in Calls : InRegistry(c) /\ f[c].st = "pending"}

\* a loop that fails nothing
FailNone(f, err) == f

FailAll(f, err) == [c \in Calls |-> IF c \in FailTargets(f) THEN FException(err) ELSE f[c]]

\* a finally block that pops nothing
PopNothing(id) == response_futures

\* a finally block that clears the dictionary
PopAll(id) == [key \in Keys |-> 0]

\* self._response_futures.pop(str(msg_id), None)
Pop(id) == [response_futures EXCEPT ![IntStr(id)] = 0]

Resolved(S) == [c \in Calls |-> IF c \in S THEN nresolved[c] + 1 ELSE nresolved[c]]

\* a heartbeat loop that an exception of send_request ends
AfterCallStops(o) == IF o = 0 THEN ht ELSE [ht EXCEPT ![o] = "done"]

\* the heartbeat loop after its send_request ended (by return or by an Exception):
\* "while not self._closed" decides between the next sleep and the end of the task
AfterCall(o) == IF o = 0 THEN ht
                ELSE [ht EXCEPT ![o] = IF closed THEN "done" ELSE "sleep"]

\* lines 68-74: allocate the id, create the future, store it under str(msg_id)
Register(c) ==
    LET id == next_msg_id(msg_id_counter) IN
    /\ msg_id_counter' = id
    /\ mid' = [mid EXCEPT ![c] = id]
    /\ issued' = Append(issued, id)
    /\ fut' = [fut EXCEPT ![c] = FPending]
    /\ response_futures' = [response_futures EXCEPT ![IntStr(id)] = c]

\* ------------------------------------------------------------ send_request
\* send_request up to its first await, called by a user task (o = 0) or by
\* heartbeat task o.
StartSend(o) ==
    LET c == ncalls + 1 IN
    /\ ncalls < budget.calls
    /\ ncalls' = c
    /\ owner' = [owner EXCEPT ![c] = o]
    /\ IF ClosedCheck
       THEN /\ pc' = [pc EXCEPT ![c] = "done"]
            /\ outcome' = [outcome EXCEPT ![c] = "precond"]
            /\ ht' = AfterCall(o)
            /\ UNCHANGED <<msg_id_counter, mid, issued, fut, response_futures>>
       ELSE IF writer = 0
       THEN /\ pc' = [pc EXCEPT ![c] = "connecting"]
            /\ ht' = IF o = 0 THEN ht ELSE [ht EXCEPT ![o] = "sending"]
            /\ UNCHANGED <<outcome, msg_id_counter, mid, issued, fut, response_futures>>
       ELSE /\ pc' = [pc EXCEPT ![c] = "writing"]
            /\ ht' = IF o = 0 THEN ht ELSE [ht EXCEPT ![o] = "sending"]
            /\ Register(c)
            /\ UNCHANGED outcome
    /\ UNCHANGED <<fixedVars, connVars, cstate, readerVars, hcancel, nconnect, closeVars,
                   sent, sink, nresolved>>

SendRequest == StartSend(0)

\* _heartbeat_loop: the sleep is over, send_request({"type": "heartbeat"}) is called
HeartbeatWake(k) ==
    /\ ht[k] = "sleep"
    /\ ~hcancel[k]
    /\ StartSend(k)

\* open_connection delivered streams: lines 37-39
OpenTransport ==
    LET k == nconn + 1 IN
    /\ nconn < budget.conns
    /\ nconn' = k
    /\ cstate' = [cstate EXCEPT ![k] = "open"]
    /\ reader' = k
    /\ writer' = k
    /\ rt' = [rt EXCEPT ![k] = "new"]
    /\ receive_task' = k
    /\ heartbeat_task' = k
    /\ UNCHANGED <<rcancel, rconn, rexit, hcancel>>

\* the connect() inside send_request returned: the call goes on to line 68
SendConnectOk(c) ==
    /\ pc[c] = "connecting"
    /\ OpenTransport
    /\ ht' = [ht EXCEPT ![nconn + 1] = "sleep"]
    /\ Register(c)
    /\ pc' = [pc EXCEPT ![c] = "writing"]
    /\ UNCHANGED <<fixedVars, ncalls, owner, outcome, nconnect, closeVars, sent, sink,
                   nresolved>>

\* the connect() inside send_request raised (TimeoutError or OSError)
SendConnectFail(c) ==
    /\ pc[c] = "connecting"
    /\ pc' = [pc EXCEPT ![c] = "done"]
    /\ outcome' = [outcome EXCEPT ![c] = "connect_error"]
    /\ ht' = AfterCall(owner[c])
    /\ UNCHANGED <<fixedVars, connVars, cstate, readerVars, hcancel, ncalls, owner, mid, fut,
                   response_futures, msg_id_counter, nconnect, closeVars, issued, sent,
                   sink, nresolved>>

\* the calling task is a heartbeat task on which cancel() was called
Cancelling(c) == owner[c] # 0 /\ hcancel[owner[c]]

\* _write_message: write and drain went through
WriteOk(c) ==
    /\ pc[c] = "writing"
    /\ ~Cancelling(c)
    /\ cstate[writer] \in {"open", "eof"}
    /\ sent' = sent \cup {mid[c]}
    /\ pc' = [pc EXCEPT ![c] = "waiting"]
    /\ UNCHANGED <<fixedVars, connVars, cstate, readerVars, hbVars, ncalls, owner, mid, fut, outcome,
                   response_futures, msg_id_counter, nconnect, closeVars, issued,
                   sink, nresolved>>

\* _write_message: drain raised ConnectionResetError on a lost transport; the
\* exception leaves send_request before the try block, so nothing is popped
WriteFail(c) ==
    /\ pc[c] = "writing"
    /\ ~Cancelling(c)
    /\ cstate[writer] = "lost"
    /\ pc' = [pc EXCEPT ![c] = "done"]
    /\ outcome' = [outcome EXCEPT ![c] = "write_error"]
    /\ ht' = AfterCall(owner[c])
    /\ UNCHANGED <<fixedVars, connVars, cstate, readerVars, hcancel, ncalls, owner, mid, fut,
                   response_futures, msg_id_counter, nconnect, closeVars, issued, sent,
                   sink, nresolved>>

\* how a call ends when wait_for hands back a completed future
OutcomeOf(f) == IF f.st = "result" THEN "reply"
                ELSE IF f.err = "Connection lost" THEN "lost" ELSE "closed"

\* wait_for returned the future's result or raised its exception; finally pops
Wake(c) ==
    /\ pc[c] = "waiting"
    /\ ~Cancelling(c)
    /\ fut[c].st \in {"result", "exception"}
    /\ pc' = [pc EXCEPT ![c] = "done"]
    /\ outcome' = [outcome EXCEPT ![c] = OutcomeOf(fut[c])]
    /\ response_futures' = Pop(mid[c])
    /\ ht' = AfterCall(owner[c])
    /\ UNCHANGED <<fixedVars, connVars, cstate, readerVars, hcancel, ncalls, owner, mid, fut,
                   msg_id_counter, nconnect, closeVars, issued, sent, sink, nresolved>>

\* wait_for ran out of time: it cancels the future and raises TimeoutError; finally pops
Timeout(c) ==
    /\ pc[c] = "waiting"
    /\ ~Cancelling(c)
    /\ fut[c].st = "pending"
    /\ fut' = [fut EXCEPT ![c] = FCancelled]
    /\ nresolved' = Resolved({c})
    /\ pc' = [pc EXCEPT ![c] = "done"]
    /\ outcome' = [outcome EXCEPT ![c] = "timeout"]
    /\ response_futures' = Pop(mid[c])
    /\ ht' = AfterCall(owner[c])
    /\ UNCHANGED <<fixedVars, connVars, cstate, readerVars, hcancel, ncalls, owner, mid,
                   msg_id_counter, nconnect, closeVars, issued, sent, sink>>

\* ------------------------------------------------------------------ connect
\* connect() called by a user task: the guard of line 35 fails and the task
\* waits in open_connection (connect() does not look at self._closed)
ConnectCall ==
    /\ ~(reader # 0 /\ ~at_eof(reader))
    /\ nconn + nconnect < budget.conns
    /\ nconnect' = nconnect + 1
    /\ UNCHANGED <<fixedVars, connVars, cstate, readerVars, hbVars, callVars, fut, response_futures,
                   msg_id_counter, closeVars, issued, sent, sink, nresolved>>

\* open_connection returned to a user task's connect()
ConnectOk ==
    /\ nconnect > 0
    /\ nconnect' = nconnect - 1
    /\ OpenTransport
    /\ ht' = [ht EXCEPT ![nconn + 1] = "sleep"]
    /\ UNCHANGED <<fixedVars, callVars, fut, response_futures, msg_id_counter, closeVars, issued,
                   sent, sink, nresolved>>

\* open_connection failed or wait_for ran out of time: connect() raises
ConnectFail ==
    /\ nconnect > 0
    /\ nconnect' = nconnect - 1
    /\ UNCHANGED <<fixedVars, connVars, cstate, readerVars, hbVars, callVars, fut, response_futures,
                   msg_id_counter, closeVars, issued, sent, sink, nresolved>>

\* -------------------------------------------------------------- reader loop
\* a loop that catches CancelledError only
ReaderCatchesCancelOnly(exc) == exc = "CancelledError"

\* the exceptions _reader_loop catches (CancelledError, and Exception with its subclasses)
ReaderCatches(exc) == exc \in {"CancelledError", "Exception"}

\* _reader_loop leaves its while loop (break, loop condition or exception): the
\* finally block fails what is pending.  f and done are the futures and the set of
\* futures completed earlier in the same run of the task.
ReaderExit(k, exc, f, done) ==
    /\ rt' = [rt EXCEPT ![k] = "done"]
    /\ rexit' = [rexit EXCEPT ![k] = IF exc = "" \/ ReaderCatches(exc) THEN "returned"
                                     ELSE "raised"]
    /\ fut' = FailAll(f, "Connection lost")
    /\ nresolved' = Resolved(done \cup FailTargets(f))
    /\ UNCHANGED <<rconn, rcancel>>

\* the loop head "while not self._reader.at_eof()" and the next readexactly, which
\* raises RuntimeError when another coroutine already waits on that stream
ReaderAgain(k, f, done) ==
    IF at_eof(reader)
    THEN ReaderExit(k, "", f, done)
    ELSE IF \E j \in Conns : j # k /\ rt[j] = "running" /\ rconn[j] = reader
    THEN ReaderExit(k, "Exception", f, done)
    ELSE /\ rt' = [rt EXCEPT ![k] = "running"]
         /\ rconn' = [rconn EXCEPT ![k] = reader]
         /\ fut' = f
         /\ nresolved' = Resolved(done)
         /\ UNCHANGED <<rexit, rcancel>>

\* the first run of a reader task
ReaderStart(k) ==
    /\ rt[k] = "new"
    /\ ReaderAgain(k, fut, {})
    /\ UNCHANGED <<fixedVars, connVars, cstate, hbVars, callVars, response_futures, msg_id_counter,
                   nconnect, closeVars, issued, sent, sink>>

\* the frames a stream can deliver to the readexactly waiting on it
FramesOn(k) == IF at_eof(k) THEN EndFrames ELSE LiveFrames

\* a dispatch that hands a message to the oldest entry, whatever its reply_to
HandleMessageOldest(k, msg) ==
    LET c == LookupOldest(PyStr(msg.reply_to)) IN
    IF CanResolve(c)
    THEN /\ ReaderAgain(k, [fut EXCEPT ![c] = FResult(msg)], {c})
         /\ UNCHANGED sink
    ELSE /\ sink' = [msg |-> msg, at |-> msg_id_counter]
         /\ ReaderAgain(k, fut, {})

\* _handle_message, then back to the loop head
HandleMessage(k, msg) ==
    LET c == Lookup(PyStr(msg.reply_to)) IN
    IF msg.reply_to # JNull /\ CanResolve(c)
    THEN /\ ReaderAgain(k, [fut EXCEPT ![c] = FResult(msg)], {c})
         /\ UNCHANGED sink
    ELSE /\ sink' = [msg |-> msg, at |-> msg_id_counter]
         /\ ReaderAgain(k, fut, {})

\* frame fr reaches reader task k, which waits in readexactly
ReaderFrame(k, fr) ==
    /\ rt[k] = "running"
    /\ ~rcancel[k]
    /\ fr \in FramesOn(rconn[k])
    /\ LET res == ReadMessage(fr) IN
       IF res.tag = "None" THEN ReaderExit(k, "", fut, {}) /\ UNCHANGED sink
       ELSE IF res.tag = "raise" \/ fr.kind = "nondict"
       THEN ReaderExit(k, "Exception", fut, {}) /\ UNCHANGED sink
       ELSE HandleMessage(k, res.msg)
    /\ UNCHANGED <<fixedVars, connVars, cstate, hbVars, callVars, response_futures, msg_id_counter,
                   nconnect, closeVars, issued, sent>>

ReaderStep(k) == \E fr \in LiveFrames \cup EndFrames : ReaderFrame(k, fr)

\* CancelledError reaches the reader task at its await
ReaderCancelled(k) ==
    /\ rt[k] = "running"
    /\ rcancel[k]
    /\ rt' = [rt EXCEPT ![k] = "done"]
    /\ rexit' = [rexit EXCEPT ![k] = IF ReaderCatches("CancelledError") THEN "returned"
                                     ELSE "raised"]
    /\ rcancel' = [rcancel EXCEPT ![k] = FALSE]
    /\ fut' = FailAll(fut, "Connection lost")
    /\ nresolved' = Resolved(FailTargets(fut))
    /\ UNCHANGED <<fixedVars, connVars, cstate, hbVars, callVars, response_futures, msg_id_counter,
                   nconnect, closeVars, issued, sent, sink, rconn>>

\* ---------------------------------------------------------- heartbeat loop
\* CancelledError reaches the heartbeat task in asyncio.sleep
HeartbeatCancelledAsleep(k) ==
    /\ ht[k] = "sleep"
    /\ hcancel[k]
    /\ ht' = [ht EXCEPT ![k] = "done"]
    /\ hcancel' = [hcancel EXCEPT ![k] = FALSE]
    /\ UNCHANGED <<fixedVars, connVars, cstate, readerVars, callVars, fut, response_futures,
                   msg_id_counter, nconnect, closeVars, issued, sent, sink, nresolved>>

\* CancelledError reaches the heartbeat task in _write_message's drain: it leaves
\* send_request before the try block, the entry stays and the future stays pending
HeartbeatCancelledWriting(c) ==
    /\ pc[c] = "writing"
    /\ Cancelling(c)
    /\ pc' = [pc EXCEPT ![c] = "done"]
    /\ outcome' = [outcome EXCEPT ![c] = "cancelled"]
    /\ ht' = [ht EXCEPT ![owner[c]] = "done"]
    /\ hcancel' = [hcancel EXCEPT ![owner[c]] = FALSE]
    /\ UNCHANGED <<fixedVars, connVars, cstate, readerVars, ncalls, owner, mid, fut,
                   response_futures, msg_id_counter, nconnect, closeVars, issued, sent,
                   sink, nresolved>>

\* CancelledError reaches the heartbeat task in wait_for: a pending future is
\* cancelled; with a future completed meanwhile wait_for either hands back its
\* outcome or lets the CancelledError through, depending on the asyncio version.
\* The finally block pops the entry, and the loop ends either way (_closed is set).
HeartbeatCancelledWaiting(c) ==
    /\ pc[c] = "waiting"
    /\ Cancelling(c)
    /\ pc' = [pc EXCEPT ![c] = "done"]
    /\ response_futures' = Pop(mid[c])
    /\ ht' = [ht EXCEPT ![owner[c]] = "done"]
    /\ hcancel' = [hcancel EXCEPT ![owner[c]] = FALSE]
    /\ IF fut[c].st = "pending"
       THEN /\ fut' = [fut EXCEPT ![c] = FCancelled]
            /\ nresolved' = Resolved({c})
            /\ outcome' = [outcome EXCEPT ![c] = "cancelled"]
       ELSE /\ UNCHANGED <<fut, nresolved>>
            /\ \/ outcome' = [outcome EXCEPT ![c] = "cancelled"]
               \/ outcome' = [outcome EXCEPT ![c] = OutcomeOf(fut[c])]
    /\ UNCHANGED <<fixedVars, connVars, cstate, readerVars, ncalls, owner, mid, msg_id_counter,
                   nconnect, closeVars, issued, sent, sink>>

\* -------------------------------------------------------------------- close
\* Task.cancel() on a reader task: one that never ran ends without running any
\* of its code, a waiting one gets CancelledError at its await
CancelReader(k) ==
    /\ rt' = IF k # 0 /\ rt[k] = "new" THEN [rt EXCEPT ![k] = "done"] ELSE rt
    /\ rexit' = IF k # 0 /\ rt[k] = "new" THEN [rexit EXCEPT ![k] = "returned"] ELSE rexit
    /\ rcancel' = IF k # 0 /\ rt[k] = "running" THEN [rcancel EXCEPT ![k] = TRUE] ELSE rcancel
    /\ UNCHANGED rconn

\* Task.cancel() on a heartbeat task
CancelHeartbeat(k) ==
    hcancel' = IF k # 0 /\ ht[k] \in {"sleep", "sending"}
               THEN [hcancel EXCEPT ![k] = TRUE] ELSE hcancel

\* close() up to "await self._writer.wait_closed()"; without a writer it runs to its end
CloseBegin ==
    /\ ncloses < budget.closes
    /\ ncloses' = ncloses + 1
    /\ closed' = TRUE
    /\ idAtClose' = IF ncloses = 0 THEN msg_id_counter ELSE idAtClose
    /\ CancelHeartbeat(heartbeat_task)
    /\ CancelReader(receive_task)
    /\ IF writer # 0
       THEN /\ cstate' = [cstate EXCEPT ![writer] = "lost"]
            /\ closing' = closing + 1
            /\ UNCHANGED <<closeReturned, fut, nresolved>>
       ELSE /\ closeReturned' = closeReturned + 1
            /\ fut' = FailAll(fut, "Client closed")
            /\ nresolved' = Resolved(FailTargets(fut))
            /\ UNCHANGED <<cstate, closing>>
    /\ UNCHANGED <<fixedVars, connVars, ht, callVars, response_futures, msg_id_counter, nconnect,
                   issued, sent, sink>>

\* wait_closed returned: lines 54-56 fail what is pending, close() returns
CloseEnd ==
    /\ closing > 0
    /\ closing' = closing - 1
    /\ closeReturned' = closeReturned + 1
    /\ fut' = FailAll(fut, "Client closed")
    /\ nresolved' = Resolved(FailTargets(fut))
    /\ UNCHANGED <<fixedVars, connVars, cstate, readerVars, hbVars, callVars, response_futures,
                   msg_id_counter, nconnect, closed, ncloses, idAtClose, issued,
                   sent, sink>>

\* --------------------------------------------------------------------- peer
\* the peer closes its side of a transport: the stream reaches EOF
PeerClose(k) ==
    /\ cstate[k] = "open"
    /\ cstate' = [cstate EXCEPT ![k] = "eof"]
    /\ UNCHANGED <<fixedVars, connVars, readerVars, hbVars, callVars, fut, response_futures,
                   msg_id_counter, nconnect, closeVars, issued, sent, sink, nresolved>>

\* the transport is lost (reset by the peer): reads end, writes raise
PeerReset(k) ==
    /\ cstate[k] \in {"open", "eof"}
    /\ cstate' = [cstate EXCEPT ![k] = "lost"]
    /\ UNCHANGED <<fixedVars, connVars, readerVars, hbVars, callVars, fut, response_futures,
                   msg_id_counter, nconnect, closeVars, issued, sent, sink, nresolved>>

Next ==
    \/ SendRequest
    \/ \E k \in Conns : HeartbeatWake(k)
    \/ \E c \in Calls : SendConnectOk(c)
    \/ \E c \in Calls : SendConnectFail(c)
    \/ \E c \in Calls : WriteOk(c)
    \/ \E c \in Calls : WriteFail(c)
    \/ \E c \in Calls : Wake(c)
    \/ \E c \in Calls : Timeout(c)
    \/ ConnectCall
    \/ ConnectOk
    \/ ConnectFail
    \/ \E k \in Conns : ReaderStart(k)
    \/ \E k \in Conns : ReaderStep(k)
    \/ \E k \in Conns : ReaderCancelled(k)
    \/ \E k \in Conns : HeartbeatCancelledAsleep(k)
    \/ \E c \in Calls : HeartbeatCancelledWriting(c)
    \/ \E c \in Calls : HeartbeatCancelledWaiting(c)
    \/ CloseBegin
    \/ CloseEnd
    \/ \E k \in Conns : PeerClose(k)
    \/ \E k \in Conns : PeerReset(k)

Spec == Init /\ [][Next]_vars

OverlapSpec == OverlapInit /\ [][Next]_vars

\* -------------------------------------------------------------- codec runs
\* the strings of up to MaxText code points: ASCII, two- and three-byte
\* characters, the characters json escapes, and a lone surrogate
TextAlphabet == {Ord.a, Ord.eacute, Ord.euro, Ord.quote, Ord.backslash, Ord.newline,
                 Ord.surrogate}
Texts == UNION {[1..n -> TextAlphabet] : n \in 0..MaxText}

\* the msg_ids of the codec runs: one, two and three digits
CodecIds == {1, 12, 300}

KeyType == <<116, 121, 112, 101>>
KeyMsgId == <<109, 115, 103, 95, 105, 100>>
KeyPayload == <<112, 97, 121, 108, 111, 97, 100>>
KeyText == <<116, 101, 120, 116>>
TypeEcho == <<101, 99, 104, 111>>
TypeHeartbeat == <<104, 101, 97, 114, 116, 98, 101, 97, 116>>

\* the message send_request builds from {"type": "heartbeat"}
HeartbeatMessage(id) == CObj(<<<<KeyType, CStr(TypeHeartbeat)>>, <<KeyMsgId, CInt(id)>>>>)

\* the message send_request builds from {"type": "echo", "payload": {"text": s}}
EchoMessage(id, s) ==
    CObj(<<<<KeyType, CStr(TypeEcho)>>,
           <<KeyPayload, CObj(<<<<KeyText, CStr(s)>>>>)>>,
           <<KeyMsgId, CInt(id)>>>>)

CodecMessages == {HeartbeatMessage(id) : id \in CodecIds}
                 \cup {EchoMessage(id, s) : id \in CodecIds, s \in Texts}

CodecInit ==
    /\ ClientInit([calls |-> 0, conns |-> 0, closes |-> 0])
    /\ cphase = "message"
    /\ cmsg \in CodecMessages
    /\ wire = NoWire
    /\ decoded = NoRead

\* _write_message builds the frame of the message
Encode ==
    /\ cphase = "message"
    /\ wire' = WriteMessage(cmsg)
    /\ cphase' = "encoded"
    /\ UNCHANGED <<clientVars, cmsg, decoded>>

\* _read_message reads the frame back from a stream that holds nothing else
Decode ==
    /\ cphase = "encoded"
    /\ wire.tag = "bytes"
    /\ decoded' = DecodeFrame(wire.bytes)
    /\ cphase' = "decoded"
    /\ UNCHANGED <<clientVars, cmsg, wire>>

CodecNext == Encode \/ Decode

CodecSpec == CodecInit /\ [][CodecNext]_vars

\* =================================================================== claims
Done(c) == fut[c].st \in {"result", "exception", "cancelled"}

\* the message a call that ended with a reply returned: the result of its future
Returned(c) == fut[c].msg

\* C1: a future is completed at most once (by a reply, a duplicate reply, the
\* timeout, the reader loop's end or close()), and once it is completed its
\* outcome never changes.
C1_ExactlyOnce ==
    [][\A c \in Calls : /\ nresolved'[c] <= 1
                        /\ Done(c) => fut'[c] = fut[c]]_vars

\* C1 witness: close() has run its loop over a future that a reply had already
\* completed and that is still in the registry.
C1_Witness ==
    \E c \in Calls : /\ fut[c].st = "result"
                     /\ InRegistry(c)
                     /\ closeReturned > 0
                     /\ nresolved[c] = 1

PendingAtClose(c) == mid[c] # 0 /\ mid[c] <= idAtClose

\* C3 as stated: a request pending when close() is called is completed by nothing
\* but a connection failure, and no future of the registry is pending when close() returns.
C3_PendingFailWithClosed ==
    [][/\ \A c \in Calls : (PendingAtClose(c) /\ fut[c].st = "pending" /\ fut'[c] # fut[c])
                              => fut'[c].st = "exception"
       /\ closeReturned' > closeReturned
            => \A c \in Calls : InRegistry(c) => fut'[c].st # "pending"]_vars

\* C3 amended: when a close() has returned, every request that was pending when
\* close() was called has been completed exactly once, and no future of the
\* registry is pending at the return; the loop of close() completes a future with
\* the "Client closed" failure, the cancelled reader loop with "Connection lost",
\* and a future that its own timeout, a reply or the cancellation of the
\* heartbeat task completed first keeps that outcome.
C3_AllCompletedAtReturn ==
    [][/\ closeReturned' > 0
            => \A c \in Calls : PendingAtClose(c) => (Done(c)' /\ nresolved'[c] = 1)
       /\ closeReturned' > closeReturned
            => \A c \in Calls :
                  /\ InRegistry(c) => fut'[c].st # "pending"
                  /\ fut[c].st = "pending" => fut'[c] = FException("Client closed")
                  /\ Done(c) => fut'[c] = fut[c]]_vars

\* C3 witness: close() has returned and its loop has failed a request that was
\* pending when close() was called.
C3_Witness ==
    \E c \in Calls : /\ closeReturned > 0
                     /\ PendingAtClose(c)
                     /\ fut[c] = FException("Client closed")

\* C4: a send_request called after a close() has returned ends at once with the
\* precondition failure: no msg_id, no registry entry, no connection attempt, no frame.
C4_NoIoAfterClose ==
    [][(closeReturned > 0 /\ ncalls' = ncalls + 1) =>
          /\ pc'[ncalls'] = "done"
          /\ outcome'[ncalls'] = "precond"
          /\ mid'[ncalls'] = 0
          /\ msg_id_counter' = msg_id_counter
          /\ response_futures' = response_futures
          /\ fut' = fut
          /\ nconn' = nconn
          /\ nconnect' = nconnect
          /\ cstate' = cstate
          /\ sent' = sent]_vars

\* C4 witness: a user call has ended with the precondition failure after close() returned.
C4_Witness ==
    \E c \in Calls : /\ closeReturned > 0
                     /\ owner[c] = 0
                     /\ outcome[c] = "precond"

\* C5: after a call timed out its msg_id is in no registry entry, its future stays
\* cancelled whatever arrives later, and no other call returns a reply with that id.
C5_TimeoutRemovesEntry ==
    \A c \in Calls : outcome[c] = "timeout" =>
        /\ ~InRegistry(c)
        /\ Lookup(IntStr(mid[c])) = 0
        /\ fut[c] = FCancelled
        /\ \A d \in Calls : (d # c /\ outcome[d] = "reply")
                               => PyStr(Returned(d).reply_to) # IntStr(mid[c])

\* C5 witness: a call timed out, and a reply carrying its msg_id, which arrived
\* after that msg_id had been allocated, went to the notification print.
C5_Witness ==
    \E c \in Calls : /\ outcome[c] = "timeout"
                     /\ sink.msg = Msg(JInt(mid[c]))
                     /\ sink.at >= mid[c]

\* C6: a frame whose body is no JSON leaves the reader loop running and fails no
\* pending request.
C6_BadJsonDropped ==
    [][\A k \in Conns : ReaderFrame(k, Frame("badjson", JNull))
                           => (rt'[k] = "running" /\ fut' = fut)]_vars

\* C7: a send_request call that ended (and was not cancelled) ended with a matched
\* reply, a connection-loss failure, a timeout or a precondition failure (the
\* closed client, or the failed connect).
C7_OutcomeInSet ==
    \A c \in Calls : (pc[c] = "done" /\ outcome[c] # "cancelled") =>
        outcome[c] \in {"reply", "lost", "closed", "timeout", "precond", "connect_error"}

\* C8: msg_ids are allocated in strictly increasing order, no two calls share one,
\* every registry entry sits under the key of its own call's msg_id, and a pending
\* future is never displaced from the registry.
C8_IdsUnique ==
    /\ \A i, j \in DOMAIN issued : i < j => issued[i] < issued[j]
    /\ \A c, d \in Calls : (c # d /\ mid[c] # 0 /\ mid[d] # 0)
                              => (mid[c] # mid[d] /\ IntStr(mid[c]) # IntStr(mid[d]))
    /\ \A key \in Keys : response_futures[key] # 0
                            => key = IntStr(mid[response_futures[key]])
    /\ \A c \in Calls : fut[c].st = "pending" => InRegistry(c)

\* C8 witness: a user call and a heartbeat call both hold a msg_id.
C8_Witness ==
    \E c, d \in Calls : /\ owner[c] = 0
                        /\ owner[d] # 0
                        /\ mid[c] # 0
                        /\ mid[d] # 0

\* the frames C9 is about: end of stream, short read, zero length, fatal decode error
FatalFrames == EndFrames \cup {Frame(k, JNull) : k \in {"zero", "badutf8", "nondict"}}

\* C9: on end of stream, a short read, a zero-length frame or a fatal decode
\* error the reader loop ends, every pending future gets the "Connection lost"
\* failure, and no exception leaves the reader task.
C9_ReaderExitFailsPending ==
    [][\A k \in Conns : \A fr \in FatalFrames :
          ReaderFrame(k, fr) =>
             /\ rt'[k] = "done"
             /\ rexit'[k] = "returned"
             /\ \A c \in Calls : fut[c].st = "pending"
                                    => fut'[c] = FException("Connection lost")]_vars

\* C9 witness: the reader loop has ended on its own (close() was never called)
\* and a request carries the "Connection lost" failure.
C9_Witness ==
    \E k \in Conns : \E c \in Calls : /\ ncloses = 0
                                      /\ rt[k] = "done"
                                      /\ fut[c] = FException("Connection lost")

\* the client is Connected: not closed, a transport is set and the reader loop
\* started for it has not ended
Connected ==
    /\ ~closed
    /\ writer # 0
    /\ receive_task # 0
    /\ rt[receive_task] \in {"new", "running"}

\* C10: a heartbeat request is issued only while the client is Connected, and
\* send_request goes on to write without connecting first only while it is Connected.
C10_OnlyWhileConnected ==
    [][\A c \in Calls : (pc[c] = "none" /\ pc'[c] = "writing") => Connected]_vars

\* a task that has started, has not ended and was not cancelled
ReaderRunning(k) == rt[k] \in {"new", "running"} /\ ~rcancel[k]
HeartbeatRunning(k) == ht[k] \in {"sleep", "sending"} /\ ~hcancel[k]

\* a transport the client has opened and not closed (the peer may have closed its side)
TransportOpen(k) == cstate[k] \in {"open", "eof"}

\* C11: once close() has been called no step opens a transport or starts a
\* reader task or a heartbeat task.
C11_ClosedIsTerminal ==
    [][closed => /\ nconn' = nconn
                 /\ \A k \in Conns : /\ rt[k] = "none" => rt'[k] = "none"
                                     /\ ht[k] = "none" => ht'[k] = "none"
                                     /\ ~TransportOpen(k) => ~TransportOpen(k)']_vars

\* C12: when a close() has returned, no reader task and no heartbeat task of the
\* client is running and no transport of the client is open.
C12_CloseTerminatesAll ==
    closeReturned > 0 => \A k \in Conns : /\ ~ReaderRunning(k)
                                          /\ ~HeartbeatRunning(k)
                                          /\ ~TransportOpen(k)

\* C13: at most one transport is open, at most one reader task and at most one
\* heartbeat task are running, whatever connect() calls and connecting
\* send_request calls overlap.
C13_AtMostOneLive ==
    /\ Cardinality({k \in Conns : TransportOpen(k)}) <= 1
    /\ Cardinality({k \in Conns : ReaderRunning(k)}) <= 1
    /\ Cardinality({k \in Conns : HeartbeatRunning(k)}) <= 1

\* C14: the step in which a call times out changes no transport, leaves the
\* client's streams and tasks as they are, cancels nothing, leaves the heartbeat
\* loop in its sleep when the call was a heartbeat, and changes neither the future
\* nor the registry entry of any other call.
C14_TimeoutIsLocal ==
    [][\A c \in Calls : (outcome[c] = "none" /\ outcome'[c] = "timeout") =>
          /\ cstate' = cstate
          /\ closed' = closed
          /\ <<reader, writer, receive_task, heartbeat_task>>'
                = <<reader, writer, receive_task, heartbeat_task>>
          /\ <<rt, rcancel, hcancel>>' = <<rt, rcancel, hcancel>>
          /\ \A k \in Conns : k # owner[c] => ht'[k] = ht[k]
          /\ (owner[c] # 0 /\ ~closed) => ht'[owner[c]] = "sleep"
          /\ \A d \in Calls : d # c => fut'[d] = fut[d]
          /\ \A key \in Keys : response_futures[key] # c
                                  => response_futures'[key] = response_futures[key]]_vars

\* C14 witness: a call has timed out while an earlier call is still waiting with
\* its future pending and its entry in the registry, on a connection whose
\* reader loop runs.
C14_Witness ==
    \E c, d \in Calls : /\ d < c
                        /\ outcome[c] = "timeout"
                        /\ pc[d] = "waiting"
                        /\ fut[d].st = "pending"
                        /\ Lookup(IntStr(mid[d])) = d
                        /\ Connected
                        /\ rt[receive_task] = "running"

\* the ways a heartbeat's send_request fails: timeout or an error of the connection
HeartbeatFailures == {"timeout", "lost", "closed", "write_error", "connect_error"}

\* C15: the step in which a heartbeat's send_request fails closes nothing (the
\* closed flag, the transports and the client's streams and tasks stay as they
\* are), and unless close() was called the heartbeat loop is back in its sleep,
\* not cancelled, from where it sends the next heartbeat.
C15_HeartbeatFailureIgnored ==
    [][\A c \in Calls :
          (owner[c] # 0 /\ pc[c] # "done" /\ pc'[c] = "done"
             /\ outcome'[c] \in HeartbeatFailures) =>
          /\ closed' = closed
          /\ cstate' = cstate
          /\ <<reader, writer, receive_task, heartbeat_task>>'
                = <<reader, writer, receive_task, heartbeat_task>>
          /\ ~closed => /\ ht'[owner[c]] = "sleep"
                        /\ ~hcancel'[owner[c]]]_vars

\* C15 witness: a heartbeat failed and the same loop has sent its next heartbeat
\* on the open client.
C15_Witness ==
    \E c, d \in Calls : /\ c < d
                        /\ owner[c] # 0
                        /\ owner[d] = owner[c]
                        /\ outcome[c] \in HeartbeatFailures
                        /\ pc[d] \in {"writing", "waiting"}
                        /\ ~closed

\* C16: a message without reply_to goes to the notification print; the step
\* changes no registry entry, gives no future a result, and while the reader loop
\* goes on it changes no future at all (a stream that has ended behind the message
\* ends the loop, which then fails what is pending).
C16_NotificationToSink ==
    [][\A k \in Conns : ReaderFrame(k, Frame("msg", JNull)) =>
          /\ sink'.msg = Msg(JNull)
          /\ response_futures' = response_futures
          /\ \A c \in Calls : fut'[c].st = "result" => fut'[c] = fut[c]
          /\ rt'[k] = "running" => (fut' = fut /\ nresolved' = nresolved)]_vars

\* C16 witness: a notification was printed after a request was registered, and
\* that request is still waiting with its future pending.
C16_Witness ==
    \E c \in Calls : /\ sink.msg = Msg(JNull)
                     /\ sink.at >= mid[c]
                     /\ pc[c] = "waiting"
                     /\ fut[c].st = "pending"
                     /\ Lookup(IntStr(mid[c])) = c

\* C17: a step of a second close() (its call, after or during the first, and its
\* return) leaves the client closed, opens nothing, completes no future a second
\* time (which would raise InvalidStateError) and leaves every completed future
\* as it is.
C17_CloseIdempotent ==
    [][((ncloses >= 1 /\ ncloses' > ncloses) \/ (closeReturned >= 1 /\ closeReturned' > closeReturned)) =>
          /\ closed'
          /\ nconn' = nconn
          /\ <<reader, writer, receive_task, heartbeat_task>>'
                = <<reader, writer, receive_task, heartbeat_task>>
          /\ \A c \in Calls : /\ nresolved'[c] <= 1
                              /\ Done(c) => fut'[c] = fut[c]]_vars

\* C17 witness: two close() calls have returned, and a request pending when
\* close() was first called carries the failure of a close() loop and still sits
\* in the registry, where the later loop found it completed.
C17_Witness ==
    \E c \in Calls : /\ closeReturned = 2
                     /\ PendingAtClose(c)
                     /\ fut[c] = FException("Client closed")
                     /\ Lookup(IntStr(mid[c])) = c
                     /\ nresolved[c] = 1

\* C18: a message that _write_message frames and _read_message reads back comes
\* out equal to the original: the encoding raises nothing and the decoded value
\* is the message.
C18_RoundTrip ==
    /\ cphase \in {"encoded", "decoded"} => wire.tag = "bytes"
    /\ cphase = "decoded" => decoded = [tag |-> "value", val |-> cmsg]

\* C19: the registry never holds an entry whose future is completed, and it is
\* empty in the state a reader loop's end or a close()'s return leads to.
C19_NoCompletedEntry ==
    [][/\ \A c \in Calls : InRegistry(c)' => fut'[c].st = "pending"
       /\ (closeReturned' > closeReturned
             \/ \E k \in Conns : rt[k] = "running" /\ rt'[k] = "done")
          => \A key \in Keys : response_futures'[key] = 0]_vars

\* C20: the msg_id of a send_request call that has ended, whatever its outcome,
\* is in no registry entry.
C20_OnlyCallsInProgress ==
    \A c \in Calls : pc[c] = "done" => (~InRegistry(c) /\ Lookup(IntStr(mid[c])) # c)

====
